---- MODULE Spec2Model ----
(***************************************************************************)
(* syncless: a single-file, append-only, checksummed log that is projected *)
(* onto a byte-addressable logical view through an in-memory span map.     *)
(*                                                                         *)
(* The model keeps the file as a sequence of bytes together with the       *)
(* position cursor of the open std::fs::File, because every write_all,     *)
(* read, read_exact and seek of the source acts on that one cursor.        *)
(***************************************************************************)
EXTENDS Integers, Sequences, FiniteSets, TLC

(***************************************************************************)
(* Bounds of the model.                                                    *)
(***************************************************************************)
\* successful non-empty writes to a file when reads interleave
MaxWrites == 2
\* successful non-empty writes to a file whose log is then cut
MaxLogWrites == 4
\* successful non-empty writes to a file whose log is then damaged
MaxDamagedWrites == 3
\* bytes of the log that are zeroed
MaxZeroed == 2
\* successful non-empty writes to a file whose fresh bytes may read back as zeros
MaxPhantomWrites == 2
\* successful non-empty writes to a file whose header version is then changed
MaxVersionWrites == 1
\* largest major and format version a file header carries
MaxVersion == 1
MaxAdds == 2
MaxTornWrites == 2
MaxFullWrites == 2
MaxRecoveredWrites == 1
MaxKey == 3
MaxSpanLen == 3
\* largest logical offset passed to write and read
MaxOff == 2
\* longest ordinary write buffer
MaxLen == 2
\* longest read buffer
MaxReadLen == 3
\* successful opens of the file
MaxOpens == 2
\* width in bits of the length a record may carry; the source has 24
LenBits == 2

(***************************************************************************)
(* Program constants.                                                      *)
(***************************************************************************)
\* record.rs: const RECORD_HDR_SIZE: usize = 8 + 3
RECORD_HDR_SIZE == 11
\* record.rs: the 8-byte little-endian logical offset of a record
OFFSET_LEN == 8
\* record.rs: the 3-byte little-endian length of a record
LEN_LEN == 3
\* record.rs: the 8-byte trailer
CSUM_LEN == 8
\* header.rs: [0u8; 8 + 4]
HEADER_LEN == 12
\* header.rs: CURRENT_MAJOR, CURRENT_FORMAT, CURRENT_MINOR
CURRENT_MAJOR == 0
CURRENT_FORMAT == 0
CURRENT_MINOR == 0

RECURSIVE Pow2(_)
Pow2(n) == IF n = 0 THEN 1 ELSE 2 * Pow2(n - 1)

\* record.rs: MAX_RECORD_SIZE = 1 << 24, with the 24 scaled to LenBits
MAX_RECORD_SIZE == Pow2(LenBits)

\* header.rs: MAGIC = b"Syncless"
MAGIC == <<83, 121, 110, 99, 108, 101, 115, 115>>

Byte == 0..255

\* the n bytes of the k-th write of a file: every write and every position
\* in it carries its own byte value
Payload(k, n) == [i \in 1..n |-> 16 * (k + 3) + i]

Min(a, b) == IF a < b THEN a ELSE b
Max(a, b) == IF a > b THEN a ELSE b
SetMax(S) == CHOOSE x \in S : \A y \in S : y <= x
SetMin(S) == CHOOSE x \in S : \A y \in S : x <= y

\* the elements of a finite set of numbers in ascending order
RECURSIVE Ascending(_)
Ascending(S) == IF S = {} THEN <<>>
                ELSE <<SetMin(S)>> \o Ascending(S \ {SetMin(S)})

\* s[from+1 .. from+n], positions counted from 0 as file offsets are
Slice(s, from, n) == SubSeq(s, from + 1, from + n)

Zeros(n) == [i \in 1..n |-> 0]

(***************************************************************************)
(* Byte codecs.                                                            *)
(***************************************************************************)
\* u64::to_le_bytes and the three shifts of write_record: n bytes, low first
RECURSIVE to_le_bytes(_, _)
to_le_bytes(x, n) == IF n = 0 THEN <<>>
                     ELSE <<x % 256>> \o to_le_bytes(x \div 256, n - 1)

\* u64::from_le_bytes and the len24 expression of read_next_record
RECURSIVE from_le_bytes(_)
from_le_bytes(b) == IF b = <<>> THEN 0
                    ELSE b[1] + 256 * from_le_bytes(Tail(b))

\* crc64fast::Digest: an 8-byte digest of a byte string.  The library's
\* polynomial is replaced by position-weighted sums: digest byte j is
\* 37j + SUM (b[i] + 1) * (2ij + 1) modulo 256, computed from the plain and
\* the position-weighted sum of the input.  Like the CRC, each digest byte
\* changes when any single byte of the input changes, the digest of an
\* all-zero input is not zero, and the digest depends on the length of the
\* input.
RECURSIVE CrcSums(_, _)
CrcSums(b, i) ==
    IF i > Len(b) THEN <<0, 0>>
    ELSE LET r == CrcSums(b, i + 1)
         IN <<(r[1] + b[i] + 1) % 256, (r[2] + i * (b[i] + 1)) % 256>>

sum64(b) ==
    LET s == CrcSums(b, 1)
    IN [j \in 1..CSUM_LEN |-> (37 * j + s[1] + 2 * j * s[2]) % 256]

(***************************************************************************)
(* The file primitives of std::fs::File, on (content, cursor).             *)
(***************************************************************************)
\* write_all at the cursor: overwrites what is there, extends the file, and
\* fills a gap between the end of the file and the cursor with zeros
write_all(f, c, bytes) ==
    LET base == IF c > Len(f) THEN f \o Zeros(c - Len(f)) ELSE f
        n == Len(bytes)
    IN [file |-> Slice(base, 0, c) \o bytes
                   \o Slice(base, c + n, Max(Len(base) - (c + n), 0)),
        cursor |-> c + n]

\* how many bytes a read of n bytes at the cursor gets
Avail(f, c, n) == IF c >= Len(f) THEN 0 ELSE Min(n, Len(f) - c)

\* read_exact: Ok with n bytes, or UnexpectedEof after consuming what is left
read_exact(f, c, n) ==
    IF c + n <= Len(f)
    THEN [ok |-> TRUE, bytes |-> Slice(f, c, n), cursor |-> c + n]
    ELSE [ok |-> FALSE, bytes |-> Slice(f, c, Avail(f, c, n)),
          cursor |-> c + Avail(f, c, n)]

(***************************************************************************)
(* header.rs                                                               *)
(***************************************************************************)
HeaderBytes(major, format, minor) ==
    MAGIC \o <<major, format>> \o to_le_bytes(minor, 2)

\* write_header: the 12 bytes the source writes
write_header == HeaderBytes(CURRENT_MAJOR, CURRENT_FORMAT, CURRENT_MINOR)

is_read_compatible(hver) == hver.major <= CURRENT_MAJOR

\* is_write_compatible with the bug of ignoring the format version
is_write_compatible_any_format(hver) ==
    is_read_compatible(hver)

is_write_compatible(hver) ==
    is_read_compatible(hver) /\ hver.format <= CURRENT_FORMAT

\* read_header at cursor 0: "ok" with the version, or "NotSyncless"
read_header(f) ==
    LET r == read_exact(f, 0, HEADER_LEN)
    IN IF ~r.ok THEN [res |-> "NotSyncless", cursor |-> r.cursor]
       ELSE IF Slice(r.bytes, 0, 8) # MAGIC
       THEN [res |-> "NotSyncless", cursor |-> r.cursor]
       ELSE [res |-> "ok", cursor |-> r.cursor,
             hver |-> [major |-> r.bytes[9], format |-> r.bytes[10],
                       minor |-> from_le_bytes(Slice(r.bytes, 10, 2))]]

(***************************************************************************)
(* record.rs                                                               *)
(***************************************************************************)
\* debug_check_spans: no zero-length spans, no overlapping
debug_check_spans(spans) ==
    /\ \A k \in DOMAIN spans : spans[k].len > 0
    /\ \A k1, k2 \in DOMAIN spans : k1 < k2 => k1 + spans[k1].len <= k2

\* read_bytes_fail_back: read n bytes at the cursor; on a short read that got
\* at least one byte, seek back by everything read so far for this record
read_bytes_fail_back(f, c, n, total_read) ==
    LET length == Avail(f, c, n)
        total == total_read + length
    IN [ok |-> length = n,
        bytes |-> Slice(f, c, length),
        total_read |-> total,
        cursor |-> IF length = n THEN c + length
                   ELSE IF length # 0 THEN c + length - total
                   ELSE c]

\* validate: re-read the record around a payload and compare the checksum.
\* "true" and "false" are the Ok values, "io" the UnexpectedEof of read_exact
validate(f, data_offset, data_length) ==
    LET r == read_exact(f, data_offset - RECORD_HDR_SIZE,
                        RECORD_HDR_SIZE + data_length + CSUM_LEN)
    IN IF ~r.ok THEN [res |-> "io", cursor |-> r.cursor]
       ELSE [res |-> IF sum64(Slice(r.bytes, 0, RECORD_HDR_SIZE + data_length))
                        = Slice(r.bytes, RECORD_HDR_SIZE + data_length, CSUM_LEN)
                     THEN "true" ELSE "false",
             cursor |-> r.cursor]

\* the None of read_next_record: file_offset is left alone
NoRecord(c, file_offset) ==
    [some |-> FALSE, cursor |-> c, file_offset |-> file_offset]

\* read_next_record, the value of len24 in the header bytes read
len24(hdrbytes) == from_le_bytes(Slice(hdrbytes, OFFSET_LEN, LEN_LEN))

\* read_next_record after header h, payload d and trailer t were read:
\* compare the checksum; on a mismatch seek back by total_read
read_record_check(file_offset, h, d, t) ==
    IF ~t.ok THEN NoRecord(t.cursor, file_offset)
    ELSE IF sum64(h.bytes \o d.bytes) # t.bytes
    THEN NoRecord(t.cursor - t.total_read, file_offset)
    ELSE [some |-> TRUE, cursor |-> t.cursor,
          file_offset |-> file_offset + t.total_read,
          logical_offset |-> from_le_bytes(Slice(h.bytes, 0, OFFSET_LEN)),
          length |-> len24(h.bytes),
          file_data_offset |-> file_offset + RECORD_HDR_SIZE]

\* read_next_record after header h and payload d were read: read the trailer
read_record_trailer(f, file_offset, h, d) ==
    IF ~d.ok THEN NoRecord(d.cursor, file_offset)
    ELSE read_record_check(file_offset, h, d,
             read_bytes_fail_back(f, d.cursor, CSUM_LEN, d.total_read))

\* read_next_record after header h was read: read the payload
read_record_data(f, file_offset, h) ==
    IF ~h.ok THEN NoRecord(h.cursor, file_offset)
    ELSE read_record_trailer(f, file_offset, h,
             read_bytes_fail_back(f, h.cursor, len24(h.bytes), h.total_read))

\* read_next_record: Some(record) with the cursor and file_offset advanced,
\* or None
read_next_record(f, c, file_offset) ==
    read_record_data(f, file_offset,
        read_bytes_fail_back(f, c, RECORD_HDR_SIZE, 0))

\* the bytes write_record emits for one record: the length field keeps the
\* low bits of len only (the three "& 0xFF" of the source)
RecordBytes(logical_offset, data) ==
    LET offhdr == to_le_bytes(logical_offset, OFFSET_LEN)
        lenhdr == to_le_bytes(Len(data) % MAX_RECORD_SIZE, LEN_LEN)
    IN offhdr \o lenhdr \o data \o sum64(offhdr \o lenhdr \o data)

\* write_record: emit the record at the cursor; the payload offset it returns
\* and the new file_size are computed from the file_size passed in
write_record(f, c, logical_offset, data, file_size) ==
    LET w == write_all(f, c, RecordBytes(logical_offset, data))
        data_off == file_size + OFFSET_LEN + LEN_LEN
    IN [file |-> w.file, cursor |-> w.cursor, data_off |-> data_off,
        file_size |-> data_off + Len(data) + CSUM_LEN]

\* write_record when the disk takes only room bytes more, fewer than the
\* record has: the write_all that runs out returns the error through its ?,
\* with the bytes before it emitted and file_size not touched
write_record_partial(f, c, logical_offset, data, room) ==
    LET w == write_all(f, c, Slice(RecordBytes(logical_offset, data), 0, room))
    IN [file |-> w.file, cursor |-> w.cursor]

\* split_span with the bug of leaving the span before the split at its old
\* length
split_span_keep_len(spans, logical_offset) ==
    LET below == {k \in DOMAIN spans : k < logical_offset}
        offset == SetMax(below)
        before_len == logical_offset - offset
    IN IF below = {} \/ ~(offset + spans[offset].len > logical_offset)
       THEN [ok |-> TRUE, spans |-> spans]
       ELSE [ok |-> spans[offset].validated,
             spans |-> [k \in DOMAIN spans \cup {logical_offset} |->
                 IF k = logical_offset
                 THEN [len |-> spans[offset].len - before_len,
                       file_data_offset |-> spans[offset].file_data_offset + before_len,
                       validated |-> spans[offset].validated]
                 ELSE spans[k]]]

\* split_span with the bug of giving the span after the split the file offset
\* of the span before it
split_span_same_offset(spans, logical_offset) ==
    LET below == {k \in DOMAIN spans : k < logical_offset}
        offset == SetMax(below)
        before_len == logical_offset - offset
    IN IF below = {} \/ ~(offset + spans[offset].len > logical_offset)
       THEN [ok |-> TRUE, spans |-> spans]
       ELSE [ok |-> spans[offset].validated,
             spans |-> [k \in DOMAIN spans \cup {logical_offset} |->
                 IF k = logical_offset
                 THEN [len |-> spans[offset].len - before_len,
                       file_data_offset |-> spans[offset].file_data_offset,
                       validated |-> spans[offset].validated]
                 ELSE IF k = offset
                 THEN [spans[offset] EXCEPT !.len = before_len]
                 ELSE spans[k]]]

\* split_span: if a span overlaps logical_offset, split it in two; ok is FALSE
\* when assert!(span.validated) fails
split_span(spans, logical_offset) ==
    LET below == {k \in DOMAIN spans : k < logical_offset}
        offset == SetMax(below)
        before_len == logical_offset - offset
    IN IF below = {} \/ ~(offset + spans[offset].len > logical_offset)
       THEN [ok |-> TRUE, spans |-> spans]
       ELSE [ok |-> spans[offset].validated,
             spans |-> [k \in DOMAIN spans \cup {logical_offset} |->
                 IF k = logical_offset
                 THEN [len |-> spans[offset].len - before_len,
                       file_data_offset |-> spans[offset].file_data_offset + before_len,
                       validated |-> spans[offset].validated]
                 ELSE IF k = offset
                 THEN [spans[offset] EXCEPT !.len = before_len]
                 ELSE spans[k]]]

\* add_record with the bug of not splitting the span that reaches past the
\* end of the new record
add_record_no_right_split(spans, logical_offset, len, file_data_offset, validated) ==
    LET s1 == split_span(spans, logical_offset)
        overlaps == {k \in DOMAIN s1.spans :
                        logical_offset <= k /\ k < logical_offset + len}
    IN [ok |-> s1.ok,
        spans |-> [k \in (DOMAIN s1.spans \ overlaps) \cup {logical_offset} |->
            IF k = logical_offset
            THEN [len |-> len, file_data_offset |-> file_data_offset,
                  validated |-> validated]
            ELSE s1.spans[k]]]

\* add_record with the bug of not deleting the spans the new record covers
add_record_keep_covered(spans, logical_offset, len, file_data_offset, validated) ==
    LET s1 == split_span(spans, logical_offset)
        s2 == split_span(s1.spans, logical_offset + len)
    IN [ok |-> s1.ok /\ s2.ok,
        spans |-> [k \in DOMAIN s2.spans \cup {logical_offset} |->
            IF k = logical_offset
            THEN [len |-> len, file_data_offset |-> file_data_offset,
                  validated |-> validated]
            ELSE s2.spans[k]]]

\* add_record: insert a record into the span map
add_record(spans, logical_offset, len, file_data_offset, validated) ==
    LET s1 == split_span(spans, logical_offset)
        s2 == split_span(s1.spans, logical_offset + len)
        overlaps == {k \in DOMAIN s2.spans :
                        logical_offset <= k /\ k < logical_offset + len}
    IN [ok |-> s1.ok /\ s2.ok,
        spans |-> [k \in (DOMAIN s2.spans \ overlaps) \cup {logical_offset} |->
            IF k = logical_offset
            THEN [len |-> len, file_data_offset |-> file_data_offset,
                  validated |-> validated]
            ELSE s2.spans[k]]]

(***************************************************************************)
(* store.rs                                                                *)
(***************************************************************************)
\* BTreeMap::new()
NoSpans == <<>>

\* the build of the process making a call: debug_assert! is checked in a debug
\* build and compiled out in a release build
Builds == {"debug", "release"}

\* Store::size with the bug of returning the key of the last span
size_last_key(spans) ==
    IF DOMAIN spans = {} THEN 0
    ELSE SetMax(DOMAIN spans)

\* Store::size
size(spans) ==
    IF DOMAIN spans = {} THEN 0
    ELSE SetMax(DOMAIN spans) + spans[SetMax(DOMAIN spans)].len

\* Store::prev_offset with the bug of returning the offset itself, so that
\* the span reaching over the start of a write is not validated
prev_offset_not_prior(spans, offset) == offset

\* Store::prev_offset: offset of the prior record (or 0)
prev_offset(spans, offset) ==
    LET below == {k \in DOMAIN spans : k < offset}
    IN IF below = {} THEN 0 ELSE SetMax(below)

\* read_newfile's loop: read records until the first None
RECURSIVE ReplayLoop(_, _, _, _, _)

\* the loop body after add_record returned a for record r; "assert_failed" is
\* the panic of assert!(span.validated) in split_span, "panic" any other one
ReplayAdded(f, build, r, a) ==
    IF ~a.ok
    THEN [res |-> "assert_failed", cursor |-> r.cursor,
          file_size |-> r.file_offset, spans |-> a.spans]
    ELSE IF build = "debug" /\ ~debug_check_spans(a.spans)
    THEN [res |-> "panic", cursor |-> r.cursor, file_size |-> r.file_offset,
          spans |-> a.spans]
    ELSE ReplayLoop(f, r.cursor, r.file_offset, a.spans, build)

\* the loop condition and body for the result r of read_next_record
ReplayRecord(f, file_offset, spans, build, r) ==
    IF ~r.some
    THEN [res |-> "ok", cursor |-> r.cursor, file_size |-> file_offset,
          spans |-> spans]
    ELSE ReplayAdded(f, build, r,
             add_record(spans, r.logical_offset, r.length,
                        r.file_data_offset, TRUE))

ReplayLoop(f, c, file_offset, spans, build) ==
    ReplayRecord(f, file_offset, spans, build,
                 read_next_record(f, c, file_offset))

\* read_newfile: parse the header, load up the records
read_newfile(f, writable, build) ==
    LET h == read_header(f)
        failed(e) == [res |-> e, cursor |-> h.cursor, file_size |-> 0,
                      spans |-> NoSpans]
    IN IF h.res # "ok" THEN failed(h.res)
       ELSE IF ~(IF writable THEN is_write_compatible(h.hver)
                 ELSE is_read_compatible(h.hver))
       THEN failed("UnsupportedVersion")
       ELSE ReplayLoop(f, h.cursor, HEADER_LEN, NoSpans, build)

\* what a read of the file gets while the positions in stale, freshly written
\* and not yet synced, read back as zeros
Staled(f, stale) ==
    [i \in 1..Len(f) |-> IF (i - 1) \in stale THEN 0 ELSE f[i]]

\* validate_record_with_retry with the bug of giving up after the first
\* failed validation
retry_result_no_retry(v1, v2) ==
    IF v1.res = "true"
    THEN [res |-> "ok", cursor |-> v1.cursor, synced |-> FALSE,
          first |-> v1.res, second |-> "none"]
    ELSE IF v1.res = "io"
    THEN [res |-> "Io", cursor |-> v1.cursor, synced |-> FALSE,
          first |-> v1.res, second |-> "none"]
    ELSE [res |-> "CorruptRecord", cursor |-> v1.cursor, synced |-> FALSE,
          first |-> v1.res, second |-> "none"]

\* validate_record_with_retry on the results of the first and the second
\* validation; the second is made, after sync_data, only when the first
\* returned Ok(false)
retry_result(v1, v2) ==
    IF v1.res = "true"
    THEN [res |-> "ok", cursor |-> v1.cursor, synced |-> FALSE,
          first |-> v1.res, second |-> "none"]
    ELSE IF v1.res = "io"
    THEN [res |-> "Io", cursor |-> v1.cursor, synced |-> FALSE,
          first |-> v1.res, second |-> "none"]
    ELSE [res |-> IF v2.res = "true" THEN "ok"
                  ELSE IF v2.res = "io" THEN "Io" ELSE "CorruptRecord",
          cursor |-> v2.cursor, synced |-> TRUE,
          first |-> v1.res, second |-> v2.res]

\* validate_record_with_retry: the first validation reads what the file
\* system hands back, the one after sync_data reads what was written
validate_record_with_retry(f, stale, file_data_offset, length) ==
    retry_result(validate(Staled(f, stale), file_data_offset, length),
                 validate(f, file_data_offset, length))

\* the first loop of validate_range: validate the collected spans in key
\* order; log collects what each validation did
RECURSIVE ValidateAll(_, _, _, _, _, _)

\* the ? after validate_record_with_retry returned v for the span at
\* Head(keys): stop at the first error
ValidateRest(f, stale, spans, keys, log, v) ==
    IF v.res # "ok"
    THEN [res |-> v.res, cursor |-> v.cursor,
          stale |-> IF v.synced THEN {} ELSE stale,
          log |-> Append(log, [key |-> Head(keys), first |-> v.first,
                               second |-> v.second, synced |-> v.synced,
                               res |-> v.res])]
    ELSE ValidateAll(f, IF v.synced THEN {} ELSE stale, v.cursor, spans,
                     Tail(keys),
                     Append(log, [key |-> Head(keys), first |-> v.first,
                                  second |-> v.second, synced |-> v.synced,
                                  res |-> v.res]))

ValidateAll(f, stale, c, spans, keys, log) ==
    IF keys = <<>>
    THEN [res |-> "ok", cursor |-> c, stale |-> stale, log |-> log]
    ELSE ValidateRest(f, stale, spans, keys, log,
             validate_record_with_retry(
                 f, stale, spans[Head(keys)].file_data_offset,
                 spans[Head(keys)].len))

\* validate_range with the bug of leaving out the span at start
to_validate_after_start(spans, start, end) ==
    {k \in DOMAIN spans : start < k /\ k < end /\ ~spans[k].validated}

\* validate_range: the spans with keys in [start, end) not already validated
to_validate(spans, start, end) ==
    {k \in DOMAIN spans : start <= k /\ k < end /\ ~spans[k].validated}

\* validate_range with the bug of setting the flag of each span as it passes
mark_validated_as_passed(spans, keys, v) ==
    [res |-> v.res, cursor |-> v.cursor, stale |-> v.stale, log |-> v.log,
     spans |-> [k \in DOMAIN spans |->
                  IF \E i \in 1..Len(v.log) : v.log[i].key = k /\ v.log[i].res = "ok"
                  THEN [spans[k] EXCEPT !.validated = TRUE]
                  ELSE spans[k]]]

\* the second loop of validate_range: the flags are set only after all of
\* the spans passed (v is the result of the first loop)
mark_validated(spans, keys, v) ==
    [res |-> v.res, cursor |-> v.cursor, stale |-> v.stale, log |-> v.log,
     spans |-> IF v.res # "ok" THEN spans
               ELSE [k \in DOMAIN spans |->
                        IF k \in keys THEN [spans[k] EXCEPT !.validated = TRUE]
                        ELSE spans[k]]]

\* validate_range: validate any spans in [start, end) not already validated
validate_range(writable, f, stale, c, spans, start, end) ==
    IF ~writable
    THEN [res |-> "ok", cursor |-> c, stale |-> stale, log |-> <<>>,
          spans |-> spans]
    ELSE mark_validated(spans, to_validate(spans, start, end),
             ValidateAll(f, stale, c, spans,
                         Ascending(to_validate(spans, start, end)), <<>>))

\* buf with the bytes copied in from position at (counted from 0)
Fill(buf, at, bytes) ==
    [i \in 1..Len(buf) |->
        IF at < i /\ i <= at + Len(bytes) THEN bytes[i - at] ELSE buf[i]]

\* the for loop of Store::read over the spans with keys in [offset, end)
RECURSIVE ReadSpans(_, _, _, _, _, _, _)

\* the loop body after read_exact returned r for the span at Head(keys)
ReadSpan(f, spans, keys, start, end, buf, r) ==
    IF ~r.ok
    THEN [res |-> "Io", cursor |-> r.cursor,
          buf |-> Fill(buf, Head(keys) - start, r.bytes)]
    ELSE ReadSpans(f, r.cursor, spans, Tail(keys), start, end,
                   Fill(buf, Head(keys) - start, r.bytes))

ReadSpans(f, c, spans, keys, start, end, buf) ==
    IF keys = <<>> THEN [res |-> "ok", cursor |-> c, buf |-> buf]
    ELSE ReadSpan(f, spans, keys, start, end, buf,
             read_exact(f, spans[Head(keys)].file_data_offset,
                        Min(spans[Head(keys)].len, end - Head(keys))))

\* Store::read after the read p of the overlapping part of the previous
\* span: the spans starting inside the rest of the range
read_following(f, spans, offset, n, p) ==
    IF ~p.ok
    THEN [res |-> "Io", cursor |-> p.cursor, buf |-> Fill(Zeros(n), 0, p.bytes)]
    ELSE ReadSpans(f, p.cursor, spans,
             Ascending({k \in DOMAIN spans :
                           offset + Len(p.bytes) <= k /\ k < offset + n}),
             offset, offset + n, Fill(Zeros(n), 0, p.bytes))

\* Store::read after validate_range: the part of the span at prev that
\* reaches into the range, if any
read_previous(f, c, spans, offset, n, prev) ==
    read_following(f, spans, offset, n,
        IF prev \in DOMAIN spans /\ prev + spans[prev].len > offset
        THEN read_exact(f, spans[prev].file_data_offset + (offset - prev),
                        Min(spans[prev].len - (offset - prev), n))
        ELSE [ok |-> TRUE, bytes |-> <<>>, cursor |-> c])

\* Store::read with the result v of validate_range and the result l of the
\* reads that follow it
read_result(n, v, l) ==
    IF v.res # "ok"
    THEN [res |-> v.res, cursor |-> v.cursor, spans |-> v.spans,
          buf |-> Zeros(n), stale |-> v.stale, log |-> v.log]
    ELSE [res |-> l.res, cursor |-> l.cursor, spans |-> v.spans,
          buf |-> l.buf, stale |-> v.stale, log |-> v.log]

\* Store::read after validate_range returned v
read_validated(f, offset, n, v) ==
    read_result(n, v,
        read_previous(Staled(f, v.stale), v.cursor, v.spans, offset, n,
                      prev_offset(v.spans, offset)))

\* Store::read with the bug of splitting the span that reaches over offset
read_splitting(writable, f, stale, c, spans, offset, n) ==
    read_validated(f, offset, n,
        validate_range(writable, f, stale, c, split_span(spans, offset).spans,
                       prev_offset(spans, offset), offset + n))

\* Store::read of n bytes at offset
read(writable, f, stale, c, spans, offset, n) ==
    read_validated(f, offset, n,
        validate_range(writable, f, stale, c, spans, prev_offset(spans, offset),
                       offset + n))

\* what a write hands back: its result, the store after it, and the calls
\* of write_record it made
Written(r, f, c, spans, file_size, recs) ==
    [res |-> r, file |-> f, cursor |-> c, spans |-> spans,
     file_size |-> file_size, recs |-> recs]

\* one call of write_record: the cursor and file_size it found, the length of
\* the payload handed to it and the value its three length bytes encode
WriteRecordCall(c, file_size, n) ==
    [cursor |-> c, file_size |-> file_size, len |-> n,
     lenhdr |-> from_le_bytes(to_le_bytes(n % MAX_RECORD_SIZE, LEN_LEN))]

\* the while loop of Store<Writable>::write: one record and one span per chunk
RECURSIVE WriteChunks(_, _, _, _, _, _, _, _)

\* the loop body after add_record returned a for the chunk of n bytes that
\* write_record wrote with result w
WriteAdded(offset, buf, n, build, recs, w, a) ==
    IF ~a.ok
    THEN Written("assert_failed", w.file, w.cursor, a.spans, w.file_size, recs)
    ELSE IF build = "debug" /\ ~debug_check_spans(a.spans)
    THEN Written("panic", w.file, w.cursor, a.spans, w.file_size, recs)
    ELSE WriteChunks(w.file, w.cursor, a.spans, w.file_size,
                     offset + n, Slice(buf, n, Len(buf) - n), build, recs)

\* the loop body after write_record returned w for the chunk of n bytes
WriteChunk(spans, offset, buf, n, build, recs, w) ==
    WriteAdded(offset, buf, n, build, recs, w,
               add_record(spans, offset, n, w.data_off, FALSE))

WriteChunks(f, c, spans, file_size, offset, buf, build, recs) ==
    IF buf = <<>> THEN Written("ok", f, c, spans, file_size, recs)
    ELSE IF build = "debug" /\ ~(Min(Len(buf), MAX_RECORD_SIZE) < MAX_RECORD_SIZE)
    THEN Written("panic", f, c, spans, file_size,
                 Append(recs, WriteRecordCall(c, file_size,
                                              Min(Len(buf), MAX_RECORD_SIZE))))
    ELSE WriteChunk(spans, offset, buf, Min(Len(buf), MAX_RECORD_SIZE), build,
             Append(recs, WriteRecordCall(c, file_size,
                                          Min(Len(buf), MAX_RECORD_SIZE))),
             write_record(f, c, offset,
                          Slice(buf, 0, Min(Len(buf), MAX_RECORD_SIZE)), file_size))

\* Store<Writable>::write after validate_range returned v
write_validated(f, file_size, offset, buf, build, v) ==
    (IF v.res # "ok" THEN Written(v.res, f, v.cursor, v.spans, file_size, <<>>)
     ELSE WriteChunks(f, v.cursor, v.spans, file_size, offset, buf, build, <<>>))
        @@ [stale |-> v.stale, log |-> v.log, from |-> v.cursor]

\* Store<Writable>::write of one chunk after validate_range returned v, when
\* write_record returns the I/O error of a full disk after emitting p
write_failed(file_size, n, v, p) ==
    Written("Io", p.file, p.cursor, v.spans, file_size,
            <<WriteRecordCall(v.cursor, file_size, n)>>)
        @@ [stale |-> v.stale, log |-> v.log, from |-> v.cursor]

\* Store<Writable>::write of one chunk on a disk that takes room bytes more
write_disk_full_validated(f, file_size, offset, buf, room, v) ==
    IF v.res # "ok"
    THEN Written(v.res, f, v.cursor, v.spans, file_size, <<>>)
           @@ [stale |-> v.stale, log |-> v.log, from |-> v.cursor]
    ELSE write_failed(file_size, Len(buf), v,
             write_record_partial(f, v.cursor, offset, buf, room))

write_disk_full(f, stale, c, spans, file_size, offset, buf, room) ==
    write_disk_full_validated(f, file_size, offset, buf, room,
        validate_range(TRUE, f, stale, c, spans, prev_offset(spans, offset),
                       offset + Len(buf)))

\* Store<Writable>::write
write(f, stale, c, spans, file_size, offset, buf, build) ==
    write_validated(f, file_size, offset, buf, build,
        validate_range(TRUE, f, stale, c, spans, prev_offset(spans, offset),
                       offset + Len(buf)))

(***************************************************************************)
(* State.                                                                  *)
(***************************************************************************)
VARIABLES
    file,       \* the content of the store file, a sequence of bytes
    handle,     \* "none", "rw" (Store<Writable>) or "ro" (Store<ReadOnly>)
    cursor,     \* the position of the handle's File
    spans,      \* StoreBase.spans: key -> [len, file_data_offset, validated]
    file_size,  \* StoreBase.file_size
    hist,       \* the successful non-empty writes made to the file, in call order
    opens,      \* how many times the file was opened successfully
    firstbad,   \* the first byte cut off or damaged behind the store's back, or -1
    stale,      \* the file positions that read back as zeros until sync_data
    last        \* the last call: its name, result, offset and buffer, the
                \* validations (log) and the write_record calls (recs) it made

vars == <<file, handle, cursor, spans, file_size, hist, opens, firstbad, stale,
          last>>

\* a call that made the validations log and the write_record calls recs
CallOf(o, r, off, buf, log, recs) ==
    [op |-> o, res |-> r, off |-> off, buf |-> buf, log |-> log, recs |-> recs]

Call(o, r, off, buf) == CallOf(o, r, off, buf, <<>>, <<>>)

\* the lengths of the buffers callers write: empty, short ones, and the two
\* lengths around MAX_RECORD_SIZE
BufLens == (0..MaxLen) \cup {MAX_RECORD_SIZE, MAX_RECORD_SIZE + 1}

Init ==
    /\ file = <<>>
    /\ handle = "none"
    /\ cursor = 0
    /\ spans = NoSpans
    /\ file_size = 0
    /\ hist = <<>>
    /\ opens = 0
    /\ firstbad = -1
    /\ stale = {}
    /\ last = Call("init", "ok", 0, <<>>)

NoHandle ==
    /\ handle' = "none"
    /\ cursor' = 0
    /\ spans' = NoSpans
    /\ file_size' = 0

\* a successful open hands out a store
Opened(mode, r) ==
    /\ handle' = mode
    /\ cursor' = r.cursor
    /\ spans' = r.spans
    /\ file_size' = r.file_size
    /\ opens' = opens + 1

\* File::sync_all: of the unsynced positions none reads back as zero any more
sync_all(unsynced) == {}

\* open_writable_base on an empty file with the bug of not calling sync_all:
\* the header just written may read back as zeros
Bootstrap_no_sync(f) ==
    [res |-> "ok", file |-> write_all(f, 0, write_header).file,
     cursor |-> HEADER_LEN, spans |-> NoSpans, file_size |-> HEADER_LEN,
     stale |-> 0..(HEADER_LEN - 1)]

\* open_writable_base on an empty file: write the header and sync_all
Bootstrap(f) ==
    [res |-> "ok", file |-> write_all(f, 0, write_header).file,
     cursor |-> HEADER_LEN, spans |-> NoSpans, file_size |-> HEADER_LEN,
     stale |-> sync_all(0..(HEADER_LEN - 1))]

\* open / open_writable_base: an empty file gets the header, any other file is
\* replayed
Open ==
    /\ handle = "none"
    /\ opens < MaxOpens
    /\ \E b \in Builds :
        \E r \in {IF Len(file) = 0 THEN Bootstrap(file)
                  ELSE read_newfile(Staled(file, stale), TRUE, b)} :
            /\ file' = IF Len(file) = 0 THEN r.file ELSE file
            /\ stale' = IF Len(file) = 0 THEN r.stale ELSE stale
            /\ last' = Call("open", r.res, 0, <<>>)
            /\ IF r.res = "ok" THEN Opened("rw", r)
               ELSE NoHandle /\ opens' = opens
    /\ UNCHANGED <<hist, firstbad>>

\* open_readonly
OpenReadonly ==
    /\ handle = "none"
    /\ opens < MaxOpens
    /\ Len(file) > 0
    /\ \E b \in Builds :
        \E r \in {read_newfile(Staled(file, stale), FALSE, b)} :
            /\ last' = Call("open_readonly", r.res, 0, <<>>)
            /\ IF r.res = "ok" THEN Opened("ro", r)
               ELSE NoHandle /\ opens' = opens
    /\ UNCHANGED <<file, hist, firstbad, stale>>

\* Store<Writable>::write(offset, buf) while the file holds fewer than max
\* writes, or when the call returns an error; a panic unwinds and drops the
\* store.  With ph the bytes just written read back as zeros until the next
\* sync_data.
WriteCall(max, lens, phantoms) ==
    /\ handle = "rw"
    /\ \E offset \in 0..MaxOff, n \in lens, b \in Builds, ph \in phantoms :
        \E w \in {write(file, stale, cursor, spans, file_size, offset,
                        Payload(Len(hist) + 1, n), b)} :
            /\ Len(hist) < max \/ w.res \in {"Io", "CorruptRecord"}
            /\ file' = w.file
            /\ stale' = IF w.res # "ok" THEN w.stale
                        ELSE IF ph THEN w.stale \cup (w.from..(w.cursor - 1))
                        ELSE w.stale \ (w.from..(w.cursor - 1))
            /\ last' = CallOf("write", w.res, offset, Payload(Len(hist) + 1, n),
                              w.log, w.recs)
            /\ hist' = IF w.res = "ok" /\ n # 0
                       THEN Append(hist, [offset |-> offset,
                                          buf |-> Payload(Len(hist) + 1, n)])
                       ELSE hist
            /\ IF w.res \in {"panic", "assert_failed"}
               THEN NoHandle
               ELSE /\ cursor' = w.cursor
                    /\ spans' = w.spans
                    /\ file_size' = w.file_size
                    /\ UNCHANGED handle
    /\ UNCHANGED <<opens, firstbad>>

\* write on a file nothing has damaged
WriteTo(max, lens, phantoms) == firstbad = -1 /\ WriteCall(max, lens, phantoms)

Write == WriteTo(MaxWrites, BufLens, {FALSE})

\* Store::read(offset, buf) with a buffer of n bytes
ReadAt(offset, n) ==
    /\ handle # "none"
    /\ \E r \in {read(handle = "rw", file, stale, cursor, spans, offset, n)} :
        /\ cursor' = r.cursor
        /\ spans' = r.spans
        /\ stale' = r.stale
        /\ last' = CallOf("read", r.res, offset, r.buf, r.log, <<>>)
    /\ UNCHANGED <<file, handle, file_size, hist, opens, firstbad>>

Read == \E offset \in 0..MaxOff, n \in 0..MaxReadLen : ReadAt(offset, n)

\* Store<Writable>::into_readonly; the store is consumed, so an error drops it
IntoReadonly ==
    /\ handle = "rw"
    /\ \E v \in {validate_range(TRUE, file, stale, cursor, spans, 0, size(spans))} :
        /\ stale' = v.stale
        /\ last' = CallOf("into_readonly", v.res, 0, <<>>, v.log, <<>>)
        /\ IF v.res = "ok"
           THEN /\ handle' = "ro"
                /\ cursor' = v.cursor
                /\ spans' = v.spans
                /\ UNCHANGED file_size
           ELSE NoHandle
    /\ UNCHANGED <<file, hist, opens, firstbad>>

\* the store is dropped
Close ==
    /\ handle # "none"
    /\ NoHandle
    /\ last' = Call("close", "ok", 0, <<>>)
    /\ UNCHANGED <<file, hist, opens, firstbad, stale>>

Next == Open \/ OpenReadonly \/ Write \/ Read \/ IntoReadonly \/ Close

Spec == Init /\ [][Next]_vars

(***************************************************************************)
(* The log is cut behind the store's back: a crash loses its tail.         *)
(***************************************************************************)
\* Store<Writable>::write on the handle that created the file, with no reads
\* in between
LogWrite == opens = 1 /\ WriteTo(MaxLogWrites, 1..MaxLen, {FALSE})

\* the file is cut to its first L bytes while no store is open on it
Truncate ==
    /\ handle = "none"
    /\ firstbad = -1
    /\ Len(file) >= HEADER_LEN
    /\ \E L \in HEADER_LEN..Len(file) :
        /\ file' = Slice(file, 0, L)
        /\ firstbad' = L
    /\ last' = Call("truncate", "ok", 0, <<>>)
    /\ UNCHANGED <<handle, cursor, spans, file_size, hist, opens, stale>>

NextCrash == Open \/ OpenReadonly \/ LogWrite \/ Close \/ Truncate

SpecCrash == Init /\ [][NextCrash]_vars

(***************************************************************************)
(* The log is damaged behind the store's back.                             *)
(***************************************************************************)
\* open on the file that does not exist yet
Create == Len(file) = 0 /\ Open

\* Store<Writable>::write on the handle that created the file
DamagedLogWrite == opens = 1 /\ WriteTo(MaxDamagedWrites, 1..MaxLen, {FALSE})

\* byte b with bit k flipped
FlipBitOf(b, k) ==
    IF (b \div Pow2(k)) % 2 = 1 THEN b - Pow2(k) ELSE b + Pow2(k)

Damageable == handle = "none" /\ Len(file) > HEADER_LEN

\* one bit of the region [12, EOF) is flipped
FlipBit ==
    /\ Damageable
    /\ firstbad = -1
    /\ \E pos \in HEADER_LEN..(Len(file) - 1), k \in 0..7 :
        /\ file' = [file EXCEPT ![pos + 1] = FlipBitOf(@, k)]
        /\ firstbad' = pos
    /\ last' = Call("flip", "ok", 1, <<>>)
    /\ UNCHANGED <<handle, cursor, spans, file_size, hist, opens, stale>>

\* a non-zero byte of the region [12, EOF) is zeroed; several bytes are zeroed
\* from the highest position down
ZeroByte ==
    /\ Damageable
    /\ firstbad = -1 \/ (last.op = "zero" /\ last.off < MaxZeroed)
    /\ \E pos \in HEADER_LEN..(Len(file) - 1) :
        /\ file[pos + 1] # 0
        /\ firstbad = -1 \/ pos < firstbad
        /\ file' = [file EXCEPT ![pos + 1] = 0]
        /\ firstbad' = pos
    /\ last' = Call("zero", "ok", IF firstbad = -1 THEN 1 ELSE last.off + 1, <<>>)
    /\ UNCHANGED <<handle, cursor, spans, file_size, hist, opens, stale>>

\* the file is cut to L bytes and the last byte left is zeroed
TruncateZeroLast ==
    /\ Damageable
    /\ firstbad = -1
    /\ \E L \in (HEADER_LEN + 1)..(Len(file) - 1) :
        /\ file' = [Slice(file, 0, L) EXCEPT ![L] = 0]
        /\ firstbad' = IF file[L] # 0 THEN L - 1 ELSE L
    /\ last' = Call("truncate_zero", "ok", 1, <<>>)
    /\ UNCHANGED <<handle, cursor, spans, file_size, hist, opens, stale>>

NextCorrupt ==
    \/ Create \/ DamagedLogWrite \/ Close
    \/ FlipBit \/ ZeroByte \/ TruncateZeroLast
    \/ OpenReadonly

SpecCorrupt == Init /\ [][NextCorrupt]_vars

(***************************************************************************)
(* Phantom zeros: freshly written bytes read back as zeros until sync_data, *)
(* and a record is damaged on disk while the store is open.                *)
(***************************************************************************)
\* Store<Writable>::write on the handle that created the file; the bytes it
\* wrote may read back as zeros
PhantomWrite == opens = 1 /\ WriteTo(MaxPhantomWrites, 1..MaxLen, BOOLEAN)

\* the first payload byte of the record behind a span is damaged on disk
DamageOpen ==
    /\ handle = "rw"
    /\ firstbad = -1
    /\ \E k \in DOMAIN spans :
        /\ spans[k].file_data_offset < Len(file)
        /\ file' = [file EXCEPT ![spans[k].file_data_offset + 1] = FlipBitOf(@, 0)]
        /\ firstbad' = spans[k].file_data_offset
    /\ last' = Call("damage", "ok", 0, <<>>)
    /\ UNCHANGED <<handle, cursor, spans, file_size, hist, opens, stale>>

\* Store<Writable>::write after a record was damaged on disk
WriteDamaged ==
    /\ opens = 1
    /\ firstbad # -1
    /\ WriteCall(MaxPhantomWrites, 1..MaxLen, {FALSE})

NextPhantom ==
    \/ Create \/ PhantomWrite \/ DamageOpen \/ WriteDamaged
    \/ Read \/ IntoReadonly \/ Close

SpecPhantom == Init /\ [][NextPhantom]_vars

(***************************************************************************)
(* The file was written by another version of the implementation.          *)
(***************************************************************************)
\* Store<Writable>::write on the handle that created the file
VersionWrite == opens = 1 /\ WriteTo(MaxVersionWrites, 1..MaxLen, {FALSE})

\* the minor versions a header carries: zero, a low byte, a high byte
Minors == {0, 1, 256}

\* the header of the closed file is replaced by that of another version
SetVersion ==
    /\ handle = "none"
    /\ Len(file) >= HEADER_LEN
    /\ \E major \in 0..MaxVersion, format \in 0..MaxVersion, minor \in Minors :
        file' = HeaderBytes(major, format, minor)
                  \o Slice(file, HEADER_LEN, Len(file) - HEADER_LEN)
    /\ last' = Call("set_version", "ok", 0, <<>>)
    /\ UNCHANGED <<handle, cursor, spans, file_size, hist, opens, firstbad, stale>>

NextVersion ==
    \/ VersionWrite \/ Close \/ SetVersion
    \/ Open \/ OpenReadonly

SpecVersion == Init /\ [][NextVersion]_vars

(***************************************************************************)
(* A writable store is opened on a log whose tail is torn or damaged, and  *)
(* is written to.                                                          *)
(***************************************************************************)
\* Store<Writable>::write on the handle that created the file
TornLogWrite == opens = 1 /\ WriteTo(MaxTornWrites, 1..MaxLen, {FALSE})

\* Store<Writable>::write on the handle opened on the torn or damaged log
RecoveredWrite ==
    /\ opens = 2
    /\ firstbad # -1
    /\ WriteCall(MaxTornWrites + MaxRecoveredWrites, 1..MaxLen, {FALSE})

NextRecover ==
    \/ Open \/ TornLogWrite \/ Close
    \/ Truncate \/ FlipBit
    \/ RecoveredWrite

SpecRecover == Init /\ [][NextRecover]_vars

(***************************************************************************)
(* The disk runs full in the middle of a record.                           *)
(***************************************************************************)
\* Store<Writable>::write on the handle that created the file, before and
\* after the failed write
FullLogWrite == opens = 1 /\ WriteCall(MaxFullWrites, 1..MaxLen, {FALSE})

\* Store<Writable>::write(offset, buf) of one record that fails with the disk
\* taking only room bytes of it, at least one; the caller frees space
\* afterwards
WriteDiskFull ==
    /\ handle = "rw"
    /\ opens = 1
    /\ firstbad = -1
    /\ \E offset \in 0..MaxOff, n \in 1..MaxLen :
        \E room \in 1..(RECORD_HDR_SIZE + n + CSUM_LEN - 1) :
            \E w \in {write_disk_full(file, stale, cursor, spans, file_size, offset,
                                      Payload(Len(hist) + 1, n), room)} :
                /\ w.res = "Io"
                /\ file' = w.file
                /\ cursor' = w.cursor
                /\ spans' = w.spans
                /\ file_size' = w.file_size
                /\ stale' = w.stale
                /\ firstbad' = w.from
                /\ last' = CallOf("write", w.res, offset,
                                  Payload(Len(hist) + 1, n), w.log, w.recs)
    /\ UNCHANGED <<handle, hist, opens>>

NextFull == Create \/ FullLogWrite \/ WriteDiskFull \/ Close

SpecFull == Init /\ [][NextFull]_vars

(***************************************************************************)
(* add_record on its own: span maps that satisfy the span invariants, and  *)
(* calls of add_record on them.                                            *)
(***************************************************************************)
\* payloads lie Stride bytes apart, further than any span of a map is long
Stride == MaxSpanLen + 1

\* where the payload of the j-th record lies
DataAt(j) == HEADER_LEN + RECORD_HDR_SIZE + Stride * j

\* the span maps add_record is called on: keys up to MaxKey, spans of up to
\* MaxSpanLen bytes that do not overlap, validated or not
SpanMaps ==
    {m \in UNION {[D -> [len : 1..MaxSpanLen, file_data_offset : {0},
                        validated : BOOLEAN]] : D \in SUBSET (0..MaxKey)} :
        debug_check_spans(m)}

InitAdd ==
    /\ file = <<>>
    /\ handle = "none"
    /\ cursor = 0
    /\ \E m \in SpanMaps :
        spans = [k \in DOMAIN m |-> [m[k] EXCEPT !.file_data_offset = DataAt(k)]]
    /\ file_size = 0
    /\ hist = <<>>
    /\ opens = 0
    /\ firstbad = -1
    /\ stale = {}
    /\ last = Call("init", "ok", 0, <<>>)

\* add_record(spans, o, len, fdo, v); when assert!(span.validated) fails the
\* call panics and the map is dropped
AddRecord ==
    /\ opens < MaxAdds
    /\ \E o \in 0..MaxKey, len \in 1..MaxSpanLen, v \in BOOLEAN :
        \E a \in {add_record(spans, o, len, DataAt(MaxKey + 1 + opens), v)} :
            /\ spans' = IF a.ok THEN a.spans ELSE NoSpans
            /\ last' = Call("add_record", IF a.ok THEN "ok" ELSE "assert_failed",
                             o, <<>>)
                          @@ [len |-> len, validated |-> v,
                              file_data_offset |-> DataAt(MaxKey + 1 + opens)]
    /\ opens' = opens + 1
    /\ UNCHANGED <<file, handle, cursor, file_size, hist, firstbad, stale>>

NextAdd == AddRecord

SpecAdd == InitAdd /\ [][NextAdd]_vars

(***************************************************************************)
(* What the writes made so far say the store holds.                        *)
(***************************************************************************)
\* the writes of h whose range contains logical offset o
Covering(h, o) ==
    {i \in 1..Len(h) : h[i].offset <= o /\ o < h[i].offset + Len(h[i].buf)}

\* the payload byte of the latest write of h whose range contains o, or 0
ExpByte(h, o) ==
    IF Covering(h, o) = {} THEN 0
    ELSE LET i == SetMax(Covering(h, o)) IN h[i].buf[o - h[i].offset + 1]

\* the logical size after the writes of h
ExpSize(h) ==
    IF h = <<>> THEN 0
    ELSE SetMax({h[i].offset + Len(h[i].buf) : i \in 1..Len(h)})

\* the logical view after the writes of h
ExpView(h) == [i \in 1..ExpSize(h) |-> ExpByte(h, i - 1)]

Prefix(h, k) == SubSeq(h, 1, k)

\* the record the file format prescribes for one chunk of a write
FramedRecord(logical_offset, data) ==
    LET hdr == to_le_bytes(logical_offset, OFFSET_LEN)
                 \o to_le_bytes(Len(data), LEN_LEN)
    IN hdr \o data \o sum64(hdr \o data)

\* the records of one write: one per chunk of at most MAX_RECORD_SIZE bytes
RECURSIVE WriteRecords(_, _)
WriteRecords(offset, buf) ==
    IF buf = <<>> THEN <<>>
    ELSE LET n == Min(Len(buf), MAX_RECORD_SIZE)
         IN FramedRecord(offset, Slice(buf, 0, n))
              \o WriteRecords(offset + n, Slice(buf, n, Len(buf) - n))

\* the log the writes of h make: the header, then their records in call order
RECURSIVE ExpLog(_)
ExpLog(h) ==
    IF h = <<>> THEN write_header
    ELSE ExpLog(Prefix(h, Len(h) - 1))
           \o WriteRecords(h[Len(h)].offset, h[Len(h)].buf)

\* what a read of the whole store returns in the current state
View == read(handle = "rw", file, stale, cursor, spans, 0, size(spans))

\* all writes were made through the open handle, which created the file
OneHandle == handle = "rw" /\ opens = 1

\* every write of h fits one record
SmallWrites(h) == \A i \in 1..Len(h) : Len(h[i].buf) < MAX_RECORD_SIZE

\* the writes of h with index in S, in call order
RECURSIVE SubHist(_, _)
SubHist(h, S) ==
    IF h = <<>> THEN <<>>
    ELSE IF Len(h) \in S THEN Append(SubHist(Prefix(h, Len(h) - 1), S), h[Len(h)])
    ELSE SubHist(Prefix(h, Len(h) - 1), S)

\* how many leading writes of h have all their records within the first L
\* bytes of the log
Kept(h, L) == SetMax({k \in 0..Len(h) : Len(ExpLog(Prefix(h, k))) <= L})

\* what reopening the current file read-only and reading the whole store gives
Reopened(writable, b) ==
    LET r == read_newfile(Staled(file, stale), writable, b)
    IN [res |-> r.res, size |-> size(r.spans),
        view |-> read(writable, file, stale, r.cursor, r.spans, 0, size(r.spans))]

(***************************************************************************)
(* Claims.                                                                 *)
(***************************************************************************)
\* C1: last-writer-wins per byte.  On one writable handle, after writes that
\* each fit one record, every successful read returns at each position the
\* payload byte of the latest write whose range contains that logical offset,
\* and 0 where no write contains it.
C1_LastWriterWins ==
    (OneHandle /\ SmallWrites(hist) /\ last.op = "read" /\ last.res = "ok") =>
        \A i \in 1..Len(last.buf) : last.buf[i] = ExpByte(hist, last.off + i - 1)

\* C2: the on-disk log order equals the call order.  On one writable handle,
\* after any writes (each fitting one record), reads and validations, the file
\* is the 12-byte header followed by exactly the records of the successful
\* writes, in call order.
C2_LogIsCallOrder ==
    (OneHandle /\ SmallWrites(hist)) => file = ExpLog(hist)

\* C3: replay equivalence.  Closing a writable handle and reopening the file,
\* read-only or writable, gives the same size() and, where the view before
\* the close can be read, a byte-identical view.
C3_ReplayEquivalence ==
    (handle = "rw" /\ SmallWrites(hist)) =>
        \A writable \in BOOLEAN, b \in Builds :
            LET r == Reopened(writable, b)
            IN /\ r.res = "ok"
               /\ r.size = size(spans)
               /\ View.res = "ok" => (r.view.res = "ok" /\ r.view.buf = View.buf)

\* C4: atomic tail.  After the writes W, cutting the file to any length L from
\* 12 up to its length and reopening succeeds and shows the view after the
\* largest prefix of W whose records lie within the first L bytes.
C4_AtomicTail ==
    (firstbad # -1 /\ last.op \in {"open", "open_readonly"}) =>
        /\ last.res = "ok"
        /\ size(spans) = ExpSize(Prefix(hist, Kept(hist, firstbad)))
        /\ View.res = "ok"
        /\ View.buf = ExpView(Prefix(hist, Kept(hist, firstbad)))

\* C5: prefix observability.  Whatever writes, cuts of the log tail and
\* reopens happened, a view that can be read, on the live handle or after a
\* reopen, is the view after some prefix of the writes in call order.
C5_PrefixObservable ==
    (handle # "none" /\ View.res = "ok") =>
        \E k \in 0..Len(hist) : View.buf = ExpView(Prefix(hist, k))

\* C7: per-write atomicity.  After a cut of the file at any length and a
\* reopen, every write is in the view with all of its bytes or with none: the
\* view is the one that some of the writes, each applied whole and in call
\* order, produce.
C7_WriteAtomic ==
    (firstbad # -1 /\ last.op \in {"open", "open_readonly"} /\ last.res = "ok"
       /\ View.res = "ok") =>
        \E S \in SUBSET (1..Len(hist)) : View.buf = ExpView(SubHist(hist, S))

\* C6: corruption rejection.  After the writes W, damaging bytes of the
\* region [12, EOF) (a flipped bit, zeroed bytes, or a cut with the last byte
\* zeroed) and reopening read-only succeeds and shows exactly the view after
\* the writes whose records lie entirely before the first damaged byte.
C6_CorruptionRejected ==
    (firstbad # -1 /\ last.op = "open_readonly") =>
        /\ last.res = "ok"
        /\ View.res = "ok"
        /\ View.buf = ExpView(Prefix(hist, Kept(hist, firstbad)))

\* the positions of a buffer read at off that no span covers
Uncovered(off, n) ==
    {i \in 1..n : ~\E k \in DOMAIN spans :
                      k <= off + i - 1 /\ off + i - 1 < k + spans[k].len}

\* C8: zero-filled holes.  After any read, every byte of the buffer whose
\* logical offset no span covers is 0, and a read that extends or starts past
\* size() returns Ok.
C8_HolesAreZero ==
    last.op = "read" =>
        /\ \A i \in Uncovered(last.off, Len(last.buf)) : last.buf[i] = 0
        /\ last.off + Len(last.buf) > size(spans) => last.res = "ok"

\* C9: span invariants.  After every public operation, a failed write
\* included, every span has len > 0 and consecutive spans do not overlap.
C9_SpanInvariants == debug_check_spans(spans)

\* C9 witness: a write failed on a store whose map holds several spans, one
\* of them made by a split
C9_Witness ==
    /\ last.op = "write" /\ last.res = "Io"
    /\ Cardinality(DOMAIN spans) >= 3

\* C10: size monotonicity.  A successful write never makes size() smaller.
C10_SizeMonotone ==
    [][(last'.op = "write" /\ last'.res = "ok") => size(spans') >= size(spans)]_vars

\* C10 witness: a successful write that ends below the current size
C10_Witness ==
    /\ last.op = "write" /\ last.res = "ok"
    /\ last.buf # <<>>
    /\ last.off + Len(last.buf) < size(spans)

\* C11: downgrade validates.  into_readonly runs validate-with-retry on every
\* span not yet validated; when all pass, the read-only store has the same
\* span keys, lengths and file offsets, every span validated, and the same
\* size and view as the writable store just before; when one fails it returns
\* CorruptRecord and there is no read-only store.
C11_DowngradeValidates ==
    [][(handle = "rw" /\ last'.op = "into_readonly" /\ SmallWrites(hist)) =>
        /\ last'.res = "ok" =>
            /\ handle' = "ro"
            /\ {last'.log[i].key : i \in 1..Len(last'.log)}
                 = {k \in DOMAIN spans : ~spans[k].validated}
            /\ DOMAIN spans' = DOMAIN spans
            /\ \A k \in DOMAIN spans :
                /\ spans'[k].validated
                /\ spans'[k].len = spans[k].len
                /\ spans'[k].file_data_offset = spans[k].file_data_offset
            /\ size(spans') = size(spans)
            /\ View.res = "ok"
            /\ read(FALSE, file', stale', cursor', spans', 0, size(spans')).res = "ok"
            /\ read(FALSE, file', stale', cursor', spans', 0, size(spans')).buf
                 = View.buf
        /\ last'.res # "ok" =>
            /\ last'.res = "CorruptRecord"
            /\ handle' = "none"
        /\ last'.res = "ok" <=>
              \A i \in 1..Len(last'.log) : last'.log[i].res = "ok"
      ]_vars

\* C12: validate-with-retry.  CorruptRecord is raised exactly when the
\* validation fails both before and after sync_data; when the first fails and
\* the second passes, the enclosing call proceeds and the span becomes
\* validated; sync_data is issued only after a failed first validation.
C12_ValidateWithRetry ==
    /\ \A i \in 1..Len(last.log) :
        /\ last.log[i].res = "CorruptRecord"
              <=> (last.log[i].first = "false" /\ last.log[i].second = "false")
        /\ last.log[i].synced <=> last.log[i].first = "false"
        /\ (last.log[i].first = "false" /\ last.log[i].second = "true")
              => last.log[i].res = "ok"
        /\ (i < Len(last.log)) => last.log[i].res = "ok"
    /\ last.res = "CorruptRecord"
          <=> \E i \in 1..Len(last.log) : last.log[i].res = "CorruptRecord"
    /\ (handle # "none" /\ \A i \in 1..Len(last.log) : last.log[i].res = "ok") =>
          \A i \in 1..Len(last.log) :
              (last.op # "write" \/ last.log[i].key < last.off) =>
                  /\ last.log[i].key \in DOMAIN spans
                  /\ spans[last.log[i].key].validated

\* C12 witness: a read, write or downgrade went on after phantom zeros
C12_Witness ==
    /\ last.res = "ok"
    /\ \E i \in 1..Len(last.log) :
          last.log[i].first = "false" /\ last.log[i].second = "true"

\* C13: version gating.  A header major above the implementation's is refused
\* with UnsupportedVersion by open_readonly and by open; with an acceptable
\* major, a format above the implementation's opens read-only and is refused
\* with UnsupportedVersion by the writable open; the minor never matters.
C13_VersionGating ==
    (last.op \in {"open", "open_readonly"} /\ Len(file) >= HEADER_LEN) =>
        IF file[9] > CURRENT_MAJOR THEN last.res = "UnsupportedVersion"
        ELSE IF file[10] > CURRENT_FORMAT
        THEN last.res = IF last.op = "open" THEN "UnsupportedVersion" ELSE "ok"
        ELSE last.res = "ok"

\* C13 witness: a file of a later format and another minor, holding a record,
\* was opened read-only
C13_Witness ==
    /\ last.op = "open_readonly" /\ last.res = "ok"
    /\ file[9] <= CURRENT_MAJOR /\ file[10] > CURRENT_FORMAT
    /\ from_le_bytes(Slice(file, 10, 2)) = 256
    /\ DOMAIN spans # {}

\* C14: empty-file bootstrap.  A writable open of a zero-length file writes
\* the 12-byte header and syncs it; the store it returns has size() = 0, no
\* spans and file_size = 12 and reads as zeros, and the file can be reopened
\* read-only or writable with an empty view.
C14_EmptyFileBootstrap ==
    (last.op = "open" /\ last.res = "ok" /\ opens = 1) =>
        /\ file = write_header
        /\ Len(file) = 12
        /\ stale = {}
        /\ handle = "rw"
        /\ spans = NoSpans
        /\ size(spans) = 0
        /\ file_size = 12
        /\ \A o \in 0..MaxOff, n \in 0..MaxReadLen :
            /\ read(TRUE, file, stale, cursor, spans, o, n).res = "ok"
            /\ read(TRUE, file, stale, cursor, spans, o, n).buf = Zeros(n)
        /\ \A writable \in BOOLEAN, b \in Builds :
            /\ Reopened(writable, b).res = "ok"
            /\ Reopened(writable, b).size = 0
            /\ Reopened(writable, b).view.res = "ok"
            /\ Reopened(writable, b).view.buf = <<>>

\* C14 witness: the store returned by the open that created the file
C14_Witness ==
    /\ last.op = "open" /\ last.res = "ok" /\ opens = 1
    /\ handle = "rw" /\ Len(file) = HEADER_LEN

\* C15: cursor at log tail.  At every call of write_record made by write the
\* file cursor equals the store's file_size, so the payload offset it returns
\* (file_size + 11) is where the payload bytes are written.
C15_CursorAtLogTail ==
    last.op = "write" =>
        \A i \in 1..Len(last.recs) :
            /\ last.recs[i].cursor = last.recs[i].file_size
            /\ last.recs[i].cursor + RECORD_HDR_SIZE
                   = last.recs[i].file_size + RECORD_HDR_SIZE

\* the end of the last valid record of f, scanning whole checksum-passing
\* records from position p: the start of the torn record, or the end of f
RECURSIVE ValidLogEnd(_, _)
ValidLogEnd(f, p) ==
    IF p + RECORD_HDR_SIZE > Len(f) THEN p
    ELSE IF p + RECORD_HDR_SIZE + from_le_bytes(Slice(f, p + OFFSET_LEN, LEN_LEN))
              + CSUM_LEN > Len(f) THEN p
    ELSE IF sum64(Slice(f, p, RECORD_HDR_SIZE
                     + from_le_bytes(Slice(f, p + OFFSET_LEN, LEN_LEN))))
            # Slice(f, p + RECORD_HDR_SIZE
                     + from_le_bytes(Slice(f, p + OFFSET_LEN, LEN_LEN)), CSUM_LEN)
    THEN p
    ELSE ValidLogEnd(f, p + RECORD_HDR_SIZE
                     + from_le_bytes(Slice(f, p + OFFSET_LEN, LEN_LEN)) + CSUM_LEN)

\* C16: replay stop position.  When replay ends, however the tail is torn,
\* the file position is the end of the last valid record (the start of the
\* torn record) and the store's file_size equals that position.
C16_ReplayStopPosition ==
    (last.op \in {"open", "open_readonly"} /\ last.res = "ok") =>
        /\ file_size = ValidLogEnd(Staled(file, stale), HEADER_LEN)
        /\ cursor = ValidLogEnd(Staled(file, stale), HEADER_LEN)
        /\ cursor = file_size

\* C17: split precondition.  The assertion of split_span never fails, and a
\* span with validated = false is never the product of a split: it is left
\* as it was, or is the whole record a write_record call of this write made.
C17_SplitPrecondition ==
    [][/\ last'.res # "assert_failed"
       /\ \A k \in DOMAIN spans' :
            ~spans'[k].validated =>
                \/ k \in DOMAIN spans /\ spans[k] = spans'[k]
                \/ /\ last'.op = "write"
                   /\ \E i \in 1..Len(last'.recs) :
                        /\ spans'[k].len = last'.recs[i].len
                        /\ spans'[k].file_data_offset
                               = last'.recs[i].file_size + RECORD_HDR_SIZE]_vars

\* C17 witness: a write has split the span of an earlier write, and what is
\* left of it in front of the new record is validated
C17_Witness ==
    /\ last.op = "write" /\ last.res = "ok" /\ last.log # <<>>
    /\ \E k \in DOMAIN spans :
        /\ k < last.off
        /\ k + spans[k].len = last.off
        /\ spans[k].validated
        /\ \E i \in 1..(Len(hist) - 1) :
            /\ hist[i].offset = k
            /\ Len(hist[i].buf) < MAX_RECORD_SIZE
            /\ Len(hist[i].buf) > spans[k].len

\* C18: record length bound.  For every buffer length passed to write, each
\* record handed to write_record has a payload shorter than MAX_RECORD_SIZE,
\* and the 3-byte length field written equals the payload length.
C18_RecordLengthBound ==
    last.op = "write" =>
        \A i \in 1..Len(last.recs) :
            /\ last.recs[i].len < MAX_RECORD_SIZE
            /\ last.recs[i].lenhdr = last.recs[i].len

\* the bytes of f from position p on are a whole record with a passing
\* checksum
ValidRecordAt(f, p) ==
    /\ p >= HEADER_LEN
    /\ p + RECORD_HDR_SIZE <= Len(f)
    /\ p + RECORD_HDR_SIZE + from_le_bytes(Slice(f, p + OFFSET_LEN, LEN_LEN))
          + CSUM_LEN <= Len(f)
    /\ sum64(Slice(f, p, RECORD_HDR_SIZE
                 + from_le_bytes(Slice(f, p + OFFSET_LEN, LEN_LEN))))
       = Slice(f, p + RECORD_HDR_SIZE
                 + from_le_bytes(Slice(f, p + OFFSET_LEN, LEN_LEN)), CSUM_LEN)

\* span s at key k lies in the payload of the record at p, at the place the
\* record's logical offset gives it
SpanInRecord(f, k, s, p) ==
    /\ ValidRecordAt(f, p)
    /\ p + RECORD_HDR_SIZE <= s.file_data_offset
    /\ s.file_data_offset + s.len
          <= p + RECORD_HDR_SIZE + from_le_bytes(Slice(f, p + OFFSET_LEN, LEN_LEN))
    /\ from_le_bytes(Slice(f, p, OFFSET_LEN)) + s.file_data_offset
          = k + p + RECORD_HDR_SIZE

\* a store is open on a file that is the log of the writes made, each of
\* them fitting one record
LogAsWritten == handle # "none" /\ SmallWrites(hist) /\ file = ExpLog(hist)

Covered(m, x) == \E k \in DOMAIN m : k <= x /\ x < k + m[k].len

\* the file position of the byte map m has for the covered logical offset x
PhysicalByte(m, x) ==
    LET k == CHOOSE j \in DOMAIN m : j <= x /\ x < j + m[j].len
    IN m[k].file_data_offset + (x - k)

\* C20: insert postcondition and frame.  After add_record(spans, o, len, fdo,
\* v) with len > 0 on a map satisfying the span invariants, exactly one span
\* intersects [o, o+len): key o with length len, file offset fdo and flag v;
\* every logical offset outside [o, o+len) is covered after the call exactly
\* when it was before, and maps to the same file byte.
C20_InsertPostAndFrame ==
    [][(last'.op = "add_record" /\ last'.res = "ok" /\ debug_check_spans(spans)) =>
        /\ last'.off \in DOMAIN spans'
        /\ spans'[last'.off] = [len |-> last'.len,
                               file_data_offset |-> last'.file_data_offset,
                               validated |-> last'.validated]
        /\ \A k \in DOMAIN spans' \ {last'.off} :
            \/ k + spans'[k].len <= last'.off
            \/ k >= last'.off + last'.len
        /\ debug_check_spans(spans')
        /\ \A x \in 0..(MaxKey + 2 * MaxSpanLen) :
            (x < last'.off \/ x >= last'.off + last'.len) =>
                /\ Covered(spans', x) <=> Covered(spans, x)
                /\ Covered(spans, x) =>
                       PhysicalByte(spans', x) = PhysicalByte(spans, x)]_vars

\* C20 witness: an add_record that split a span on each side of the new span
C20_Witness ==
    /\ last.op = "add_record" /\ last.res = "ok" /\ opens = 1
    /\ last.len = MaxSpanLen
    /\ \E k \in DOMAIN spans :
        /\ k < last.off
        /\ k + spans[k].len = last.off
        /\ spans[k].file_data_offset = DataAt(k)
    /\ (last.off + last.len) \in DOMAIN spans
    /\ spans[last.off + last.len].file_data_offset
          \notin {DataAt(j) : j \in 0..(MaxKey + MaxAdds)}

\* C21: validate before depending on data.  In a writable store read(o, buf)
\* first validates every unvalidated span with key in [prev_key(o), o+len),
\* copies payload bytes only from spans whose validated flag is true, and
\* after a successful read every span intersecting [o, o+len) is validated.
C21_ValidateBeforeRead ==
    [][(handle = "rw" /\ last'.op = "read") =>
        /\ {last'.log[i].key : i \in 1..Len(last'.log)}
              \subseteq {k \in DOMAIN spans :
                            /\ prev_offset(spans, last'.off) <= k
                            /\ k < last'.off + Len(last'.buf)
                            /\ ~spans[k].validated}
        /\ (\A i \in 1..Len(last'.log) : last'.log[i].res = "ok") =>
              {last'.log[i].key : i \in 1..Len(last'.log)}
                 = {k \in DOMAIN spans :
                            /\ prev_offset(spans, last'.off) <= k
                            /\ k < last'.off + Len(last'.buf)
                            /\ ~spans[k].validated}
        /\ (\E i \in 1..Len(last'.log) : last'.log[i].res # "ok") =>
              /\ last'.res # "ok"
              /\ last'.buf = Zeros(Len(last'.buf))
        /\ \A i \in 1..Len(last'.buf) :
              last'.buf[i] # 0 =>
                 \E k \in DOMAIN spans' :
                    /\ k <= last'.off + i - 1
                    /\ last'.off + i - 1 < k + spans'[k].len
                    /\ spans'[k].validated
        /\ last'.res = "ok" =>
              \A k \in DOMAIN spans' :
                 (k < last'.off + Len(last'.buf) /\ last'.off < k + spans'[k].len)
                    => spans'[k].validated]_vars

\* C21 witness: a read on a writable store validated two spans, one of them
\* the span before its offset, and copied payload bytes
C21_Witness ==
    /\ handle = "rw" /\ last.op = "read" /\ last.res = "ok"
    /\ Len(last.log) >= 2
    /\ last.log[1].key < last.off
    /\ \A i \in 1..Len(last.buf) : last.buf[i] # 0

\* C22: error before loss.  When the validation before a write fails with
\* CorruptRecord, no record has been appended, file_size is unchanged and the
\* span map is exactly as before the call, the flags of the spans that
\* passed validation in the same call included.
C22_ErrorBeforeLoss ==
    [][(last'.op = "write" /\ last'.res = "CorruptRecord") =>
        /\ last'.recs = <<>>
        /\ file' = file
        /\ Len(file') = Len(file)
        /\ file_size' = file_size
        /\ spans' = spans
        /\ handle' = handle]_vars

\* C22 witness: a write failed with CorruptRecord after another span passed
\* validation in the same call
C22_Witness ==
    /\ last.op = "write" /\ last.res = "CorruptRecord"
    /\ Len(last.log) >= 2
    /\ last.log[1].res = "ok"
    /\ last.log[1].key \in DOMAIN spans
    /\ ~spans[last.log[1].key].validated

\* C23: size value.  size() is 0 on an empty map and otherwise the maximum of
\* k + span.len over the spans; after a successful write of a non-empty buf
\* it is max(size before, offset + buf.len()); a write of an empty buf leaves
\* it unchanged; and nothing but a write reaching past the current size makes
\* it larger.
C23_SizeValue ==
    [][/\ size(spans') = IF DOMAIN spans' = {} THEN 0
                         ELSE SetMax({k + spans'[k].len : k \in DOMAIN spans'})
       /\ (handle # "none" /\ handle' # "none") =>
            /\ (last'.op = "write" /\ last'.res = "ok" /\ last'.buf # <<>>) =>
                 size(spans') = Max(size(spans), last'.off + Len(last'.buf))
            /\ (last'.op = "write" /\ last'.res = "ok" /\ last'.buf = <<>>) =>
                 size(spans') = size(spans)
            /\ size(spans') > size(spans) =>
                 /\ last'.op = "write"
                 /\ last'.off + Len(last'.buf) > size(spans)]_vars

\* C23 witness: a successful write that ends exactly at the size it made,
\* behind another span
C23_Witness ==
    /\ last.op = "write" /\ last.res = "ok" /\ last.buf # <<>>
    /\ last.off > 0
    /\ size(spans) = last.off + Len(last.buf)
    /\ Cardinality(DOMAIN spans) >= 2

\* C24: replay equivalence on a recovered log.  For a writable handle opened
\* on a log whose tail is torn or damaged, after any further successful
\* writes on it, closing and reopening gives the size and the view the handle
\* had: every new write is visible and no record the earlier replay discarded
\* is visible again.
C24_RecoveredReplayEquivalence ==
    (handle = "rw" /\ opens = 2 /\ firstbad # -1 /\ SmallWrites(hist)
       /\ last.op \in {"open", "write"} /\ last.res = "ok") =>
        \A writable \in BOOLEAN, b \in Builds :
            /\ Reopened(writable, b).res = "ok"
            /\ Reopened(writable, b).size = size(spans)
            /\ View.res = "ok" =>
                  /\ Reopened(writable, b).view.res = "ok"
                  /\ Reopened(writable, b).view.buf = View.buf

\* C25: the handle stays usable after a failed write.  When write_record
\* fails with an I/O error after emitting part of a record, the span map
\* (keys, lengths and file offsets) and file_size are unchanged; and every
\* later successful write on the handle is read back correctly on it and is
\* visible after close and reopen.
C25_UsableAfterFailedWrite ==
    [][/\ (last'.op = "write" /\ last'.res = "Io" /\ last'.recs # <<>>) =>
            /\ DOMAIN spans' = DOMAIN spans
            /\ \A k \in DOMAIN spans :
                 /\ spans'[k].len = spans[k].len
                 /\ spans'[k].file_data_offset = spans[k].file_data_offset
            /\ file_size' = file_size
            /\ handle' = handle
       /\ (handle' = "rw" /\ firstbad # -1 /\ last'.op = "write"
             /\ last'.res = "ok") =>
            /\ read(TRUE, file', stale', cursor', spans', 0, size(spans')).res = "ok"
            /\ read(TRUE, file', stale', cursor', spans', 0, size(spans')).buf
                  = ExpView(hist')
            /\ \A writable \in BOOLEAN, b \in Builds :
                 /\ read_newfile(Staled(file', stale'), writable, b).res = "ok"
                 /\ read(writable, file', stale',
                         read_newfile(Staled(file', stale'), writable, b).cursor,
                         read_newfile(Staled(file', stale'), writable, b).spans,
                         0, ExpSize(hist')).res = "ok"
                 /\ read(writable, file', stale',
                         read_newfile(Staled(file', stale'), writable, b).cursor,
                         read_newfile(Staled(file', stale'), writable, b).spans,
                         0, ExpSize(hist')).buf = ExpView(hist')]_vars

\* C26: read frame.  A read, successful or failing, changes no key, len or
\* file_data_offset, adds and removes no span, and leaves size(), file_size
\* and the file content as they were; in a writable store the only span state
\* it changes is a validated flag from false to true; in a read-only store it
\* changes no span state and validates and syncs nothing.
C26_ReadFrame ==
    [][last'.op = "read" =>
        /\ DOMAIN spans' = DOMAIN spans
        /\ \A k \in DOMAIN spans :
             /\ spans'[k].len = spans[k].len
             /\ spans'[k].file_data_offset = spans[k].file_data_offset
             /\ spans[k].validated => spans'[k].validated
        /\ size(spans') = size(spans)
        /\ file_size' = file_size
        /\ file' = file
        /\ handle' = handle
        /\ handle = "ro" =>
             /\ spans' = spans
             /\ last'.log = <<>>
             /\ stale' = stale]_vars

\* C26 witness: a read on a writable store failed after one span had passed
\* validation, with several spans in the map
C26_Witness ==
    /\ handle = "rw" /\ last.op = "read" /\ last.res = "CorruptRecord"
    /\ Len(last.log) >= 2
    /\ Cardinality(DOMAIN spans) >= 2

====
